---- MODULE Spec2Model ----
(***************************************************************************)
(* Model of emoji/core.py: emojize, demojize, get_emoji_regexp, emoji_lis, *)
(* emoji_count and to_code_point.                                          *)
(*                                                                         *)
(* A string is a sequence of code points (Python 3 str); a character is a  *)
(* natural number.  A dict is the sequence of its items <<key, value>> in  *)
(* insertion order; a later item with the same key overrides an earlier.   *)
(***************************************************************************)
EXTENDS Integers, Sequences, FiniteSets, TLC

VARIABLES input, result, phase, EMOJI_REGEXP, pc, kind, emojis, pattern, ret, out, calls, builds

vars == <<input, result, phase, EMOJI_REGEXP, pc, kind, emojis, pattern, ret, out, calls, builds>>

(***************************************************************************)
(* Bounds of the model.                                                    *)
(***************************************************************************)
MaxPieces == 3
MaxDemojizeLen == 5
MaxLisLen == 4
MaxGlyphLen == 3
NumThreads == 2
MaxCalls == 2

(***************************************************************************)
(* Characters.                                                             *)
(***************************************************************************)
VS16 == 65039
ZWJ == 8205
EYE == 128065
LEAD_MIN == 55296
LEAD_MAX == 56319
TRAIL_MIN == 56320
SUPPLEMENTARY_BASE == 65536


THUMBS_UP == 128077
HUSHED == 128559
MAN == 128104
WOMAN == 128105
GIRL == 128103
HEAVY_HEART == 10084

DEFAULT_DELIMITER == <<58>>

(***************************************************************************)
(* Generic string helpers (Python str semantics).                          *)
(***************************************************************************)
Max(S) == CHOOSE x \in S : \A y \in S : y <= x

Contains(s, c) == \E i \in 1..Len(s) : s[i] = c

\* s[i:].startswith(d), with 1-based i
StartsWith(s, i, d) ==
  /\ i + Len(d) - 1 <= Len(s)
  /\ SubSeq(s, i, i + Len(d) - 1) = d

RECURSIVE Flatten(_)
Flatten(ss) == IF ss = <<>> THEN <<>> ELSE Head(ss) \o Flatten(Tail(ss))

RECURSIVE Join(_, _)
Join(j, ss) ==
  IF ss = <<>> THEN <<>>
  ELSE IF Len(ss) = 1 THEN Head(ss)
  ELSE Head(ss) \o j \o Join(j, Tail(ss))

\* str.replace(old, new): non-overlapping occurrences, left to right
RECURSIVE StrReplaceFrom(_, _, _, _)
StrReplaceFrom(s, i, old, new) ==
  IF i > Len(s) THEN <<>>
  ELSE IF StartsWith(s, i, old)
       THEN new \o StrReplaceFrom(s, i + Len(old), old, new)
       ELSE <<s[i]>> \o StrReplaceFrom(s, i + 1, old, new)

StrReplace(s, old, new) == StrReplaceFrom(s, 1, old, new)

(***************************************************************************)
(* dict helpers.                                                           *)
(***************************************************************************)
HasKey(d, k) == \E i \in 1..Len(d) : d[i][1] = k

DictGet(d, k, default) ==
  IF HasKey(d, k)
  THEN d[Max({i \in 1..Len(d) : d[i][1] = k})][2]
  ELSE default

\* {v: k for k, v in d.items()}
Inverse(d) == [i \in 1..Len(d) |-> <<d[i][2], d[i][1]>>]

\* d.values()
Values(d) == [i \in 1..Len(d) |-> d[i][2]]

(***************************************************************************)
(* unicode_codes: the emoji table.                                         *)
(***************************************************************************)
N_thumbs_up == <<58, 116, 104, 117, 109, 98, 115, 95, 117, 112, 58>>
N_hushed_face == <<58, 104, 117, 115, 104, 101, 100, 95, 102, 97, 99, 101, 58>>
N_man == <<58, 109, 97, 110, 58>>
N_woman == <<58, 119, 111, 109, 97, 110, 58>>
N_girl == <<58, 103, 105, 114, 108, 58>>
N_family_woman_girl == <<58, 102, 97, 109, 105, 108, 121, 95, 119, 111, 109, 97, 110, 95, 103, 105, 114, 108, 58>>
N_family_man_woman_girl == <<58, 102, 97, 109, 105, 108, 121, 95, 109, 97, 110, 95, 119, 111, 109, 97, 110, 95, 103, 105, 114, 108, 58>>
N_red_heart == <<58, 114, 101, 100, 95, 104, 101, 97, 114, 116, 58>>
N_thumbsup == <<58, 116, 104, 117, 109, 98, 115, 117, 112, 58>>
N_plus1 == <<58, 43, 49, 58>>
N_heart == <<58, 104, 101, 97, 114, 116, 58>>

G_family_woman_girl == <<WOMAN, ZWJ, GIRL>>
G_family_man_woman_girl == <<MAN, ZWJ, WOMAN, ZWJ, GIRL>>
G_red_heart == <<HEAVY_HEART, VS16>>

EMOJI_UNICODE ==
  << <<N_thumbs_up, <<THUMBS_UP>> >>,
     <<N_hushed_face, <<HUSHED>> >>,
     <<N_man, <<MAN>> >>,
     <<N_woman, <<WOMAN>> >>,
     <<N_girl, <<GIRL>> >>,
     <<N_family_woman_girl, G_family_woman_girl>>,
     <<N_family_man_woman_girl, G_family_man_woman_girl>>,
     <<N_red_heart, G_red_heart>> >>

EMOJI_ALIAS_UNICODE ==
  EMOJI_UNICODE \o
  << <<N_thumbsup, <<THUMBS_UP>> >>,
     <<N_plus1, <<THUMBS_UP>> >>,
     <<N_heart, G_red_heart>> >>

UNICODE_EMOJI == Inverse(EMOJI_UNICODE)

UNICODE_EMOJI_ALIAS == Inverse(EMOJI_ALIAS_UNICODE)

(***************************************************************************)
(* emojize.                                                                *)
(***************************************************************************)
\* the character class [a-zA-Z0-9\+\-_&.<accented>()!#*] of the pattern
IsTokenChar(c) ==
  \/ c \in 97..122
  \/ c \in 65..90
  \/ c \in 48..57
  \/ c \in {43, 45, 95, 38, 46, 40, 41, 33, 35, 42}
  \/ c \in {8730, 165, 8218, 196, 244, 214, 169, 163, 8800, 223}

RECURSIVE TokenRun(_, _)
TokenRun(s, j) ==
  IF j > Len(s) \/ ~IsTokenChar(s[j]) THEN 0 ELSE 1 + TokenRun(s, j + 1)

\* Index of the last character of the match of (open[class]+close) that
\* starts at i, or 0 when the pattern does not match at i.  [class]+ is
\* greedy and backtracks until close follows.
ShortcodeMatchEnd(s, i, delimiters) ==
  IF ~StartsWith(s, i, delimiters[1]) THEN 0
  ELSE LET j0 == i + Len(delimiters[1])
           K  == {k \in 1..TokenRun(s, j0) : StartsWith(s, j0 + k, delimiters[2])}
       IN  IF K = {} THEN 0 ELSE j0 + Max(K) + Len(delimiters[2]) - 1

\* the inner function replace(match) of emojize
emojize_replace(group1, use_aliases, delimiters) ==
  LET mg == StrReplace(StrReplace(group1, delimiters[1], DEFAULT_DELIMITER),
                       delimiters[2], DEFAULT_DELIMITER)
  IN  IF use_aliases
      THEN DictGet(EMOJI_ALIAS_UNICODE, mg, mg)
      ELSE DictGet(EMOJI_UNICODE, mg, mg)

\* pattern.sub(replace, string), from index i on
RECURSIVE emojize_sub(_, _, _, _)
emojize_sub(s, i, use_aliases, delimiters) ==
  IF i > Len(s) THEN <<>>
  ELSE LET e == ShortcodeMatchEnd(s, i, delimiters)
       IN  IF e = 0
           THEN <<s[i]>> \o emojize_sub(s, i + 1, use_aliases, delimiters)
           ELSE emojize_replace(SubSeq(s, i, e), use_aliases, delimiters)
                  \o emojize_sub(s, e + 1, use_aliases, delimiters)

emojize(string, use_aliases, delimiters) ==
  emojize_sub(string, 1, use_aliases, delimiters)

(***************************************************************************)
(* get_emoji_regexp.                                                       *)
(***************************************************************************)
\* the value None of _EMOJI_REGEXP; a compiled pattern is the ordered list
\* of its alternatives
None == [compiled |-> FALSE, alternatives |-> <<>>]

\* insert x behind every element at least as long: a stable descending sort
RECURSIVE InsertByLen(_, _)
InsertByLen(x, sorted) ==
  IF sorted = <<>> THEN <<x>>
  ELSE IF Len(Head(sorted)) >= Len(x)
       THEN <<Head(sorted)>> \o InsertByLen(x, Tail(sorted))
       ELSE <<x>> \o sorted

RECURSIVE InsertByLenAscending(_, _)
InsertByLenAscending(x, sorted) ==
  IF sorted = <<>> THEN <<x>>
  ELSE IF Len(Head(sorted)) <= Len(x)
       THEN <<Head(sorted)>> \o InsertByLenAscending(x, Tail(sorted))
       ELSE <<x>> \o sorted

RECURSIVE SortAscending(_)
SortAscending(xs) ==
  IF xs = <<>> THEN <<>>
  ELSE InsertByLenAscending(xs[Len(xs)], SortAscending(SubSeq(xs, 1, Len(xs) - 1)))

\* sorted(xs, key=len, reverse=True)
RECURSIVE SortedByLenReverse(_)
SortedByLenReverse(xs) ==
  IF xs = <<>> THEN <<>>
  ELSE InsertByLen(xs[Len(xs)], SortedByLenReverse(SubSeq(xs, 1, Len(xs) - 1)))

\* re.compile(u'(' + u'|'.join(re.escape(u) for u in emojis) + u')')
Compile(alternatives) == [compiled |-> TRUE, alternatives |-> alternatives]

\* get_emoji_regexp() run without interruption: the new value of the global,
\* which is also the value returned
get_emoji_regexp(global) ==
  IF global = None
  THEN Compile(SortedByLenReverse(Values(EMOJI_UNICODE)))
  ELSE global

(***************************************************************************)
(* demojize.                                                               *)
(***************************************************************************)
GlyphMatchEndLast(s, i, regexp) ==
  LET alts == regexp.alternatives
      M    == {k \in 1..Len(alts) : StartsWith(s, i, alts[k])}
  IN  IF M = {} THEN 0 ELSE i + Len(alts[Max(M)]) - 1

\* Index of the last character of the match of the alternation at i, or 0:
\* the alternatives are tried in order and the first that matches wins.
GlyphMatchEnd(s, i, regexp) ==
  LET alts == regexp.alternatives
      M    == {k \in 1..Len(alts) : StartsWith(s, i, alts[k])}
  IN  IF M = {} THEN 0
      ELSE LET first == CHOOSE k \in M : \A m \in M : k <= m
           IN  i + Len(alts[first]) - 1

demojize_replace_no_strip(group0, use_aliases, delimiters) ==
  LET codes_dict == IF use_aliases THEN UNICODE_EMOJI_ALIAS ELSE UNICODE_EMOJI
      val == DictGet(codes_dict, group0, group0)
  IN  delimiters[1] \o val \o delimiters[2]

\* the inner function replace(match) of demojize
demojize_replace(group0, use_aliases, delimiters) ==
  LET codes_dict == IF use_aliases THEN UNICODE_EMOJI_ALIAS ELSE UNICODE_EMOJI
      val == DictGet(codes_dict, group0, group0)
  IN  delimiters[1] \o SubSeq(val, 2, Len(val) - 1) \o delimiters[2]

\* get_emoji_regexp().sub(replace, string), from index i on
RECURSIVE demojize_sub(_, _, _, _, _)
demojize_sub(s, i, use_aliases, delimiters, regexp) ==
  IF i > Len(s) THEN <<>>
  ELSE LET e == GlyphMatchEnd(s, i, regexp)
       IN  IF e = 0
           THEN <<s[i]>> \o demojize_sub(s, i + 1, use_aliases, delimiters, regexp)
           ELSE demojize_replace(SubSeq(s, i, e), use_aliases, delimiters)
                  \o demojize_sub(s, e + 1, use_aliases, delimiters, regexp)

NotVS16(c) == c # VS16

\* regexp is the value get_emoji_regexp() returned
demojize(string, use_aliases, delimiters, regexp) ==
  SelectSeq(demojize_sub(string, 1, use_aliases, delimiters, regexp), NotVS16)

(***************************************************************************)
(* emoji_lis and emoji_count.                                              *)
(***************************************************************************)
\* the loop of emoji_lis from index i on; pos is 0-based
RECURSIVE emoji_lis_from(_, _)
emoji_lis_from(string, i) ==
  IF i > Len(string) THEN <<>>
  ELSE IF HasKey(UNICODE_EMOJI, <<string[i]>>)
       THEN <<[location |-> i - 1, emoji |-> <<string[i]>>]>>
              \o emoji_lis_from(string, i + 1)
       ELSE emoji_lis_from(string, i + 1)

emoji_lis(string) == emoji_lis_from(string, 1)

RECURSIVE emoji_count_from(_, _, _)
emoji_count_from(string, i, c) ==
  IF i > Len(string) THEN c
  ELSE IF HasKey(UNICODE_EMOJI, <<string[i]>>)
       THEN emoji_count_from(string, i + 1, c + 1)
       ELSE emoji_count_from(string, i + 1, c)

emoji_count_every_char(string) == Len(string)

emoji_count(string) == emoji_count_from(string, 1, 0)

(***************************************************************************)
(* to_code_point.                                                          *)
(***************************************************************************)
HexDigit(d) == IF d < 10 THEN 48 + d ELSE 87 + d

\* format(n, 'x') for n >= 0
RECURSIVE FormatHex(_)
FormatHex(n) ==
  IF n < 16 THEN <<HexDigit(n)>>
  ELSE FormatHex(n \div 16) \o <<HexDigit(n % 16)>>

strip_vs16_unless_zwj(string) ==
  IF ~Contains(string, ZWJ) THEN SelectSeq(string, NotVS16) ELSE string

\* lines 123-124: the value of string after the conditional replace
strip_vs16(string) ==
  IF ~Contains(string, ZWJ) \/ string[1] = EYE
  THEN SelectSeq(string, NotVS16)
  ELSE string

\* the while loop: i is 1-based, p the pending lead (0 when none), r the list
RECURSIVE code_point_loop(_, _, _, _)
code_point_loop(string, i, p, r) ==
  IF i > Len(string) THEN r
  ELSE LET c == string[i]
       IN  IF p # 0
           THEN code_point_loop(string, i + 1, 0,
                  Append(r, FormatHex(SUPPLEMENTARY_BASE + ((p - LEAD_MIN) * 1024)
                                      + (c - TRAIL_MIN))))
           ELSE IF LEAD_MIN <= c /\ c <= LEAD_MAX
                THEN code_point_loop(string, i + 1, c, r)
                ELSE code_point_loop(string, i + 1, 0, Append(r, FormatHex(c)))

to_code_point_groups(string) == code_point_loop(strip_vs16(string), 1, 0, <<>>)

to_code_point(string, joiner) == Join(joiner, to_code_point_groups(string))

(***************************************************************************)
(* Inputs of the calls.                                                    *)
(***************************************************************************)
T_thumbs_up == <<116, 104, 117, 109, 98, 115, 95, 117, 112>>
T_thumbsup == <<116, 104, 117, 109, 98, 115, 117, 112>>
T_nope == <<110, 111, 112, 101>>
T_unicode_is_tricky == <<85, 110, 105, 99, 111, 100, 101, 32, 105, 115, 32, 116, 114, 105, 99, 107, 121, 32, 128559>>

DefaultDelimiters == <<DEFAULT_DELIMITER, DEFAULT_DELIMITER>>
DoubleUnderscore == <<95, 95>>
SpacedDelimiters == << <<32, 95, 95>>, <<95, 95, 32>> >>

\* delimiter pairs made of characters that stand for themselves in a pattern
DelimiterPairs ==
  { DefaultDelimiters,
    <<DoubleUnderscore, DoubleUnderscore>>,
    << <<95>>, <<95>> >>,
    SpacedDelimiters }

EmojizePieces ==
  { <<58>>, <<95>>, DoubleUnderscore, <<32>>,
    T_thumbs_up, T_thumbsup, T_nope }

AllNames == {EMOJI_ALIAS_UNICODE[i][1] : i \in 1..Len(EMOJI_ALIAS_UNICODE)}

DemojizeAlphabet == {MAN, WOMAN, GIRL, ZWJ, VS16, 97}

LisAlphabet == {MAN, WOMAN, ZWJ, VS16, 97, THUMBS_UP}

CodeUnits == {97, VS16, ZWJ, EYE, 55357, 56832, 128488}

Joiners == { <<45>>, <<95>> }

MkInput(op, string, use_aliases, delimiters, joiner) ==
  [op |-> op, string |-> string, use_aliases |-> use_aliases,
   delimiters |-> delimiters, joiner |-> joiner]

\* the arguments of an emojize call
EmojizeInput(in) ==
  \E a \in BOOLEAN, d \in DelimiterPairs :
    \/ \E k \in 0..MaxPieces : \E ps \in [1..k -> EmojizePieces] :
         in = MkInput("emojize", Flatten(ps), a, d, <<45>>)
    \/ \E n \in AllNames : in = MkInput("emojize", n, a, d, <<45>>)

\* the arguments of a demojize call
DemojizeInput(in) ==
  \E a \in BOOLEAN, d \in {DefaultDelimiters, SpacedDelimiters} :
    \/ \E k \in 0..MaxDemojizeLen : \E s \in [1..k -> DemojizeAlphabet] :
         in = MkInput("demojize", s, a, d, <<45>>)
    \/ in = MkInput("demojize", T_unicode_is_tricky, a, d, <<45>>)

\* the argument of an emoji_lis and of an emoji_count call
LisInput(in) ==
  \E k \in 0..MaxLisLen : \E s \in [1..k -> LisAlphabet] :
    in = MkInput("emoji_lis", s, FALSE, DefaultDelimiters, <<45>>)

\* the arguments of a to_code_point call
CodePointInput(in) ==
  \E j \in Joiners : \E k \in 0..MaxGlyphLen : \E s \in [1..k -> CodeUnits] :
    in = MkInput("to_code_point", s, FALSE, DefaultDelimiters, j)

NoInput == MkInput("none", <<>>, FALSE, DefaultDelimiters, <<45>>)

NoResult ==
  [out |-> <<>>, emojized |-> <<>>, lis |-> <<>>, count |-> 0,
   string |-> <<>>, r |-> <<>>, regexp |-> None]

Threads == 1..NumThreads

ThreadText == G_family_man_woman_girl \o <<VS16, 97>>

(***************************************************************************)
(* One call of the API, run to completion (no other thread).               *)
(***************************************************************************)
ThreadVarsIdle ==
  /\ pc = [t \in Threads |-> "idle"]
  /\ kind = [t \in Threads |-> "none"]
  /\ emojis = [t \in Threads |-> <<>>]
  /\ pattern = [t \in Threads |-> <<>>]
  /\ ret = [t \in Threads |-> None]
  /\ out = [t \in Threads |-> <<>>]
  /\ calls = [t \in Threads |-> 0]
  /\ builds = 0

threadVars == <<pc, kind, emojis, pattern, ret, out, calls, builds>>

Init ==
  /\ \/ EmojizeInput(input)
     \/ DemojizeInput(input)
     \/ LisInput(input)
     \/ CodePointInput(input)
     \/ input = MkInput("get_emoji_regexp", <<>>, FALSE, DefaultDelimiters, <<45>>)
  /\ result = NoResult
  /\ phase = "ready"
  /\ EMOJI_REGEXP = None
  /\ ThreadVarsIdle

CallEmojize ==
  /\ phase = "ready"
  /\ input.op = "emojize"
  /\ result' = [NoResult EXCEPT
                  !.out = emojize(input.string, input.use_aliases, input.delimiters)]
  /\ phase' = "done"
  /\ UNCHANGED <<input, EMOJI_REGEXP, threadVars>>

CallDemojize ==
  /\ phase = "ready"
  /\ input.op = "demojize"
  /\ EMOJI_REGEXP' = get_emoji_regexp(EMOJI_REGEXP)
  /\ result' = [NoResult EXCEPT
                  !.regexp = EMOJI_REGEXP',
                  !.out = demojize(input.string, input.use_aliases,
                                   input.delimiters, EMOJI_REGEXP')]
  /\ phase' = "done"
  /\ UNCHANGED <<input, threadVars>>

\* demojize applied to what the emojize call returned, same mode and delimiters
CallDemojizeOnResult ==
  /\ phase = "done"
  /\ input.op = "emojize"
  /\ EMOJI_REGEXP' = get_emoji_regexp(EMOJI_REGEXP)
  /\ result' = [result EXCEPT
                  !.regexp = EMOJI_REGEXP',
                  !.emojized = result.out,
                  !.out = demojize(result.out, input.use_aliases,
                                   input.delimiters, EMOJI_REGEXP')]
  /\ phase' = "chained"
  /\ UNCHANGED <<input, threadVars>>

CallGetEmojiRegexp ==
  /\ phase = "ready"
  /\ input.op = "get_emoji_regexp"
  /\ EMOJI_REGEXP' = get_emoji_regexp(EMOJI_REGEXP)
  /\ result' = [NoResult EXCEPT !.regexp = EMOJI_REGEXP']
  /\ phase' = "done"
  /\ UNCHANGED <<input, threadVars>>

CallEmojiLis ==
  /\ phase = "ready"
  /\ input.op = "emoji_lis"
  /\ result' = [NoResult EXCEPT !.lis = emoji_lis(input.string)]
  /\ phase' = "done"
  /\ UNCHANGED <<input, EMOJI_REGEXP, threadVars>>

\* emoji_count on the string emoji_lis was just called with
CallEmojiCount ==
  /\ phase = "done"
  /\ input.op = "emoji_lis"
  /\ result' = [result EXCEPT !.count = emoji_count(input.string)]
  /\ phase' = "chained"
  /\ UNCHANGED <<input, EMOJI_REGEXP, threadVars>>

CallToCodePoint ==
  /\ phase = "ready"
  /\ input.op = "to_code_point"
  /\ result' = [NoResult EXCEPT
                  !.string = strip_vs16(input.string),
                  !.r = to_code_point_groups(input.string),
                  !.out = to_code_point(input.string, input.joiner)]
  /\ phase' = "done"
  /\ UNCHANGED <<input, EMOJI_REGEXP, threadVars>>

Next ==
  \/ CallEmojize
  \/ CallDemojize
  \/ CallDemojizeOnResult
  \/ CallGetEmojiRegexp
  \/ CallEmojiLis
  \/ CallEmojiCount
  \/ CallToCodePoint

Spec == Init /\ [][Next]_vars

(***************************************************************************)
(* Threads calling get_emoji_regexp and demojize concurrently.  A thread   *)
(* can be preempted between any two statements of get_emoji_regexp; pc is  *)
(* the line it executes next.                                              *)
(***************************************************************************)
ThreadInit ==
  /\ input = NoInput
  /\ result = NoResult
  /\ phase = "threads"
  /\ EMOJI_REGEXP = None
  /\ ThreadVarsIdle

seqVars == <<input, result, phase>>

\* a thread calls get_emoji_regexp(), directly or as the first step of demojize
Enter(t) ==
  /\ pc[t] = "idle"
  /\ calls[t] < MaxCalls
  /\ \E k \in {"get_emoji_regexp", "demojize"} : kind' = [kind EXCEPT ![t] = k]
  /\ calls' = [calls EXCEPT ![t] = @ + 1]
  /\ pc' = [pc EXCEPT ![t] = "test"]
  /\ UNCHANGED <<seqVars, EMOJI_REGEXP, emojis, pattern, ret, out, builds>>

TestSkipsBuild(t) ==
  /\ pc[t] = "test"
  /\ pc' = [pc EXCEPT ![t] = "return"]
  /\ UNCHANGED <<seqVars, EMOJI_REGEXP, kind, emojis, pattern, ret, out, calls, builds>>

\* if _EMOJI_REGEXP is None:
Test(t) ==
  /\ pc[t] = "test"
  /\ pc' = [pc EXCEPT ![t] = IF EMOJI_REGEXP = None THEN "sort" ELSE "return"]
  /\ UNCHANGED <<seqVars, EMOJI_REGEXP, kind, emojis, pattern, ret, out, calls, builds>>

\* emojis = sorted(unicode_codes.EMOJI_UNICODE.values(), key=len, reverse=True)
Sort(t) ==
  /\ pc[t] = "sort"
  /\ emojis' = [emojis EXCEPT ![t] = SortedByLenReverse(Values(EMOJI_UNICODE))]
  /\ pc' = [pc EXCEPT ![t] = "join"]
  /\ UNCHANGED <<seqVars, EMOJI_REGEXP, kind, pattern, ret, out, calls, builds>>

\* pattern = u'(' + u'|'.join(re.escape(u) for u in emojis) + u')'
JoinPattern(t) ==
  /\ pc[t] = "join"
  /\ pattern' = [pattern EXCEPT ![t] = emojis[t]]
  /\ pc' = [pc EXCEPT ![t] = "assign"]
  /\ UNCHANGED <<seqVars, EMOJI_REGEXP, kind, emojis, ret, out, calls, builds>>

\* _EMOJI_REGEXP = re.compile(pattern)
Assign(t) ==
  /\ pc[t] = "assign"
  /\ EMOJI_REGEXP' = Compile(pattern[t])
  /\ builds' = builds + 1
  /\ pc' = [pc EXCEPT ![t] = "return"]
  /\ UNCHANGED <<seqVars, kind, emojis, pattern, ret, out, calls>>

\* return _EMOJI_REGEXP
Return(t) ==
  /\ pc[t] = "return"
  /\ ret' = [ret EXCEPT ![t] = EMOJI_REGEXP]
  /\ pc' = [pc EXCEPT ![t] = IF kind[t] = "demojize" THEN "sub" ELSE "idle"]
  /\ UNCHANGED <<seqVars, EMOJI_REGEXP, kind, emojis, pattern, out, calls, builds>>

\* the rest of demojize, with the pattern get_emoji_regexp() returned
Substitute(t) ==
  /\ pc[t] = "sub"
  /\ out' = [out EXCEPT ![t] = demojize(ThreadText, FALSE, DefaultDelimiters, ret[t])]
  /\ pc' = [pc EXCEPT ![t] = "idle"]
  /\ UNCHANGED <<seqVars, EMOJI_REGEXP, kind, emojis, pattern, ret, calls, builds>>

ThreadNext ==
  \E t \in Threads :
    \/ Enter(t)
    \/ Test(t)
    \/ Sort(t)
    \/ JoinPattern(t)
    \/ Assign(t)
    \/ Return(t)
    \/ Substitute(t)

ThreadSpec == ThreadInit /\ [][ThreadNext]_vars

(***************************************************************************)
(* Properties of emojize.                                                  *)
(***************************************************************************)
\* ':' + token + ':' for a matched open + token + close
TokenKey(m, delimiters) ==
  DEFAULT_DELIMITER
    \o SubSeq(m, Len(delimiters[1]) + 1, Len(m) - Len(delimiters[2]))
    \o DEFAULT_DELIMITER

SelectedMapping(use_aliases) ==
  IF use_aliases THEN EMOJI_ALIAS_UNICODE ELSE EMOJI_UNICODE

\* the text with every match of an unknown shortcode left as it is
RECURSIVE UnknownEchoed(_, _, _, _)
UnknownEchoed(s, i, use_aliases, delimiters) ==
  IF i > Len(s) THEN <<>>
  ELSE LET e == ShortcodeMatchEnd(s, i, delimiters)
       IN  IF e = 0
           THEN <<s[i]>> \o UnknownEchoed(s, i + 1, use_aliases, delimiters)
           ELSE (IF HasKey(SelectedMapping(use_aliases),
                           TokenKey(SubSeq(s, i, e), delimiters))
                 THEN emojize_replace(SubSeq(s, i, e), use_aliases, delimiters)
                 ELSE SubSeq(s, i, e))
                  \o UnknownEchoed(s, e + 1, use_aliases, delimiters)

\* C1: a matched shortcode whose key ':token:' is not in the selected mapping
\* appears in the output of emojize as it was in the input, with the
\* caller's delimiters.
C1_UnknownShortcodeUntouched ==
  (phase = "done" /\ input.op = "emojize")
    => result.out = UnknownEchoed(input.string, 1, input.use_aliases, input.delimiters)

\* C7: for every name n of the selected mapping and every delimiter pair,
\* emojize(open + n + close, delimiters) equals emojize(':' + n + ':').
C7_DelimiterIndependence ==
  (phase = "done" /\ input.op = "emojize")
    => \A i \in 1..Len(SelectedMapping(input.use_aliases)) :
         LET key   == SelectedMapping(input.use_aliases)[i][1]
             token == SubSeq(key, 2, Len(key) - 1)
         IN  input.string = input.delimiters[1] \o token \o input.delimiters[2]
               => result.out = emojize(key, input.use_aliases, DefaultDelimiters)

(***************************************************************************)
(* Properties of to_code_point.                                            *)
(***************************************************************************)
IsLead(c) == c \in 55296..56319
IsTrail(c) == c \in 56320..57343
IsSurrogate(c) == IsLead(c) \/ IsTrail(c)

CountOf(s, x) == Cardinality({i \in 1..Len(s) : s[i] = x})

FE0F_GROUP == <<102, 101, 48, 102>>

BeginsWithEye(s) == s # <<>> /\ s[1] = EYE

\* C2 as stated: a glyph that contains U+200D, and a glyph that begins with
\* U+1F441, keeps all of its U+FE0F characters.
C2_KeepsSelectorsForZwjOrEye ==
  (phase = "done" /\ input.op = "to_code_point"
     /\ (Contains(input.string, ZWJ) \/ BeginsWithEye(input.string)))
    => result.string = input.string

\* C2 amended: U+FE0F is removed exactly when the glyph contains no U+200D
\* or begins with U+1F441; a glyph that contains U+200D and does not begin
\* with U+1F441 keeps all of them.  For a glyph without surrogate code units
\* the output has one 'fe0f' group per U+FE0F kept and none when removed.
C2_StripsUnlessZwjWithoutEye ==
  (phase = "done" /\ input.op = "to_code_point")
    => LET s == input.string
           keeps == Contains(s, ZWJ) /\ ~BeginsWithEye(s)
       IN  /\ keeps => result.string = s
           /\ ~keeps => /\ ~Contains(result.string, VS16)
                        /\ Len(result.string) = Len(s) - CountOf(s, VS16)
           /\ (\A i \in 1..Len(s) : ~IsSurrogate(s[i]))
                => CountOf(result.r, FE0F_GROUP)
                     = (IF keeps THEN CountOf(s, VS16) ELSE 0)

C2_Witness ==
  /\ phase = "done"
  /\ input.op = "to_code_point"
  /\ input.string = <<EYE, VS16, ZWJ>>
  /\ result.string = <<EYE, ZWJ>>

\* the groups as C3 states them
RECURSIVE PairedGroups(_, _)
PairedGroups(s, i) ==
  IF i > Len(s) THEN <<>>
  ELSE IF IsLead(s[i]) /\ i < Len(s) /\ IsTrail(s[i + 1])
       THEN <<FormatHex(SUPPLEMENTARY_BASE + ((s[i] - LEAD_MIN) * 1024)
                        + (s[i + 1] - TRAIL_MIN))>>
              \o PairedGroups(s, i + 2)
       ELSE IF IsLead(s[i])
            THEN PairedGroups(s, i + 1)
            ELSE <<FormatHex(s[i])>> \o PairedGroups(s, i + 1)

\* C3: a lead surrogate not followed by a trail contributes nothing, a lead
\* followed by a trail is combined with it, and every other unit is emitted
\* as the hex of its own value, in order.
C3_DropsOnlyUnpairedLead ==
  (phase = "done" /\ input.op = "to_code_point")
    => result.r = PairedGroups(result.string, 1)

(***************************************************************************)
(* Properties of demojize.                                                 *)
(***************************************************************************)
T_one_space == <<85, 110, 105, 99, 111, 100, 101, 32, 105, 115, 32, 116, 114, 105, 99, 107, 121, 32, 95, 95, 104, 117, 115, 104, 101, 100, 95, 102, 97, 99, 101, 95, 95, 32>>
T_two_spaces == <<85, 110, 105, 99, 111, 100, 101, 32, 105, 115, 32, 116, 114, 105, 99, 107, 121, 32, 32, 95, 95, 104, 117, 115, 104, 101, 100, 95, 102, 97, 99, 101, 95, 95, 32>>

TrickyCall ==
  /\ phase = "done"
  /\ input.op = "demojize"
  /\ input.string = T_unicode_is_tricky
  /\ input.delimiters = SpacedDelimiters
  /\ ~input.use_aliases

TableGlyphs == {EMOJI_UNICODE[i][2] : i \in 1..Len(EMOJI_UNICODE)}

\* G has more than one code point and a shorter table glyph is part of it
HasShorterComponent(G) ==
  /\ Len(G) > 1
  /\ \E h \in TableGlyphs :
       Len(h) < Len(G) /\ \E j \in 1..Len(G) : StartsWith(G, j, h)

NameOf(G, use_aliases, delimiters) ==
  LET name == DictGet(IF use_aliases THEN UNICODE_EMOJI_ALIAS ELSE UNICODE_EMOJI, G, G)
  IN  delimiters[1] \o SubSeq(name, 2, Len(name) - 1) \o delimiters[2]

\* C5 as stated: every occurrence of such a G, at every position of the
\* input, is replaced by the name of G as one unit.
C5_EveryOccurrenceReplaced ==
  (phase = "done" /\ input.op = "demojize")
    => \A G \in TableGlyphs : \A i \in 1..Len(input.string) :
         (HasShorterComponent(G) /\ StartsWith(input.string, i, G))
           => result.out =
                demojize(SubSeq(input.string, 1, i - 1), input.use_aliases,
                         input.delimiters, result.regexp)
                \o NameOf(G, input.use_aliases, input.delimiters)
                \o demojize(SubSeq(input.string, i + Len(G), Len(input.string)),
                            input.use_aliases, input.delimiters, result.regexp)

LongestGlyphAt(s, i) ==
  LET C == {g \in TableGlyphs : StartsWith(s, i, g)}
  IN  IF C = {} THEN <<>> ELSE CHOOSE g \in C : \A h \in C : Len(h) <= Len(g)

RECURSIVE LongestMatchScan(_, _, _, _)
LongestMatchScan(s, i, use_aliases, delimiters) ==
  IF i > Len(s) THEN <<>>
  ELSE LET g == LongestGlyphAt(s, i)
       IN  IF g = <<>>
           THEN <<s[i]>> \o LongestMatchScan(s, i + 1, use_aliases, delimiters)
           ELSE NameOf(g, use_aliases, delimiters)
                  \o LongestMatchScan(s, i + Len(g), use_aliases, delimiters)

\* C5 amended: at every position where the left-to-right scan looks for a
\* match (a position not inside an earlier match), the longest table glyph
\* that begins there is replaced by its name as one unit, never a shorter
\* glyph that begins there; remaining U+FE0F are then removed.
C5_LongestAtScanPosition ==
  (phase = "done" /\ input.op = "demojize")
    => result.out =
         SelectSeq(LongestMatchScan(input.string, 1, input.use_aliases,
                                    input.delimiters), NotVS16)

C5_Witness ==
  /\ phase = "done"
  /\ input.op = "demojize"
  /\ input.string = <<97>> \o G_family_woman_girl
  /\ input.delimiters = DefaultDelimiters
  /\ result.out = <<97>> \o N_family_woman_girl

CanonicalNames == {EMOJI_UNICODE[i][1] : i \in 1..Len(EMOJI_UNICODE)}

AliasNames == AllNames \ CanonicalNames

RoundTripCall ==
  /\ phase = "chained"
  /\ input.op = "emojize"
  /\ input.delimiters = DefaultDelimiters

\* C6 as stated: demojize(emojize(':n:')) = ':n:' for every canonical name
\* in canonical mode and for every alias name in alias mode.
C6_RoundTripEveryName ==
  (RoundTripCall
     /\ \/ ~input.use_aliases /\ input.string \in CanonicalNames
        \/ input.use_aliases /\ input.string \in AliasNames)
    => result.out = input.string

\* the name the glyph -> alias mapping gives the glyph of a
IsReturnedAlias(a) ==
  DictGet(UNICODE_EMOJI_ALIAS, DictGet(EMOJI_ALIAS_UNICODE, a, a), <<>>) = a

\* C6 amended: the round trip holds for every canonical name in canonical
\* mode, and in alias mode for every alias name that the glyph -> alias
\* mapping gives its glyph (one name per glyph, so not for the other aliases
\* of a glyph with several).
C6_RoundTripReturnedName ==
  (RoundTripCall
     /\ \/ ~input.use_aliases /\ input.string \in CanonicalNames
        \/ input.use_aliases /\ input.string \in AliasNames
             /\ IsReturnedAlias(input.string))
    => result.out = input.string

C6_Witness ==
  /\ RoundTripCall
  /\ input.use_aliases
  /\ input.string = N_heart
  /\ result.emojized = G_red_heart
  /\ result.out = N_heart

(***************************************************************************)
(* Properties of emoji_lis and emoji_count.                                *)
(***************************************************************************)
EmojiPositions(s) ==
  {i \in 0..(Len(s) - 1) : HasKey(UNICODE_EMOJI, <<s[i + 1]>>)}

\* C8: emoji_count(s) is the number of records of emoji_lis(s), and the
\* records are the positions, ascending, of the characters that are keys of
\* the glyph -> canonical name mapping, each with its character.
C8_CountAgreesWithLis ==
  (phase = "chained" /\ input.op = "emoji_lis")
    => LET lis == result.lis
           s   == input.string
       IN  /\ result.count = Len(lis)
           /\ {lis[k].location : k \in 1..Len(lis)} = EmojiPositions(s)
           /\ \A k \in 1..Len(lis) :
                /\ lis[k].emoji = <<s[lis[k].location + 1]>>
                /\ k < Len(lis) => lis[k].location < lis[k + 1].location

C8_Witness ==
  /\ phase = "chained"
  /\ input.op = "emoji_lis"
  /\ result.count = 2
  /\ Len(input.string) = 4

(***************************************************************************)
(* Properties of the cached pattern.                                       *)
(***************************************************************************)
\* C9: the build (sort, join, compile, assign) runs at most once.
C9_CompiledAtMostOnce == builds <= 1

IsLongestFirst(alts) ==
  /\ Len(alts) = Len(EMOJI_UNICODE)
  /\ {alts[i] : i \in 1..Len(alts)} = TableGlyphs
  /\ \A i \in 1..Len(alts) : \A j \in i..Len(alts) : Len(alts[i]) >= Len(alts[j])

HasReturned(t) == pc[t] = "sub" \/ (pc[t] = "idle" /\ calls[t] > 0)

\* C10: no caller of get_emoji_regexp receives None or an unfinished
\* pattern; every caller receives the longest-first alternation of the
\* table's glyphs, the same for all callers.
C10_RaceSafe ==
  \A t \in Threads :
    HasReturned(t)
      => /\ ret[t] # None
         /\ ret[t].compiled
         /\ IsLongestFirst(ret[t].alternatives)
         /\ \A u \in Threads : HasReturned(u) => ret[u] = ret[t]

C10_Witness ==
  /\ builds >= 2
  /\ \A t \in Threads : HasReturned(t)

====
